---- MODULE Spec2Model ----
(***************************************************************************)
(* Flashcards backend: the Modified-Leitner algorithm (logic/algorithm.ts), *)
(* the process-wide state (state.ts) and the Express handlers (server.ts).  *)
(*                                                                         *)
(* A JavaScript Map and a JavaScript Set iterate in insertion order, and    *)
(* the code depends on that order (the first bucket that has the card, the  *)
(* first card with a given front and back).  A BucketMap is therefore a     *)
(* sequence of entries [bucket, flashcards] in insertion order with         *)
(* distinct keys, and a Set<Flashcard> is a sequence of distinct card       *)
(* references in insertion order.  A Flashcard object is a reference        *)
(* number: 1..12 are the objects of initialCards, 12 + k is the k-th object *)
(* constructed by POST /api/flashcards (`created`); two objects with equal  *)
(* front and back are different references.                                *)
(***************************************************************************)
EXTENDS Integers, Sequences, FiniteSets, TLC

VARIABLES
    created,         \* the Flashcard objects constructed by POST /api/flashcards
    currentBuckets,  \* state.ts: let currentBuckets: BucketMap
    practiceHistory, \* state.ts: let practiceHistory: PracticeRecord[]
    currentDay,      \* state.ts: let currentDay: number
    calls,           \* calls made on a map handed to the algorithm directly
    tasks,           \* requests and timers under way, in the order they began
    view,            \* PracticeView.tsx: the component's state and refs
    loop,            \* GestureRecognizer.tsx: the variables of the detection loop
    last             \* the last call or request: what it was given, what it
                     \* answered, and the state it found

vars == <<created, currentBuckets, practiceHistory, currentDay, calls, tasks, view, loop, last>>

----------------------------------------------------------------------------
(* Bounds *)

MaxWrites == 3         \* state-changing requests the server is followed through
MaxDay == 2            \* highest day asked of practice directly
MaxStartBucket == 2    \* highest bucket index of a map handed to the algorithm directly
MaxCalls == 2          \* calls of update made on such a map
MaxDue == 2            \* cards the backend answers to be due, at most
MaxTasks == 3          \* requests sent and timers running that PracticeView is followed through

----------------------------------------------------------------------------
(* logic/flashcards.ts *)

Wrong == 0
Hard == 1
Easy == 2

AnswerDifficulty == {Wrong, Hard, Easy}

\* The value of a field or a query parameter that is absent from a request.
Undefined == "<undefined>"

\* findCard's "undefined" result: no reference
NoCard == 0

\* findCardBucket's "undefined" result
NoBucket == -1

\* A Flashcard's tags are stored and never read by the backend: left out.
Flashcard(front, back, hint) == [front |-> front, back |-> back, hint |-> hint]

----------------------------------------------------------------------------
(* state.ts: the cards constructed at load *)

initialCards ==
    << Flashcard("What is the capital of France?", "Paris", "Eiffel Tower"),
       Flashcard("What is the capital of Georgia?", "Tbilisi", "Old Town"),
       Flashcard("What is the capital of Japan?", "Tokyo", "Shibuya Crossing"),
       Flashcard("What is the capital of Canada?", "Ottawa", "Parliament Hill"),
       Flashcard("What is the capital of Italy?", "Rome", "Colosseum"),
       Flashcard("What is the capital of Australia?", "Canberra", "Australian War Memorial"),
       Flashcard("What is the capital of Brazil?", "Brasilia", "Modernist Architecture"),
       Flashcard("What is the capital of Russia?", "Moscow", "Red Square"),
       Flashcard("What is the capital of Egypt?", "Cairo", "Pyramids of Giza"),
       Flashcard("What is the capital of India?", "New Delhi", "India Gate"),
       Flashcard("What is the capital of South Korea?", "Seoul", "Gyeongbokgung Palace"),
       Flashcard("What is the capital of Spain?", "Madrid", "Royal Palace") >>

\* the object a reference stands for
Deref(card) ==
    IF card <= Len(initialCards) THEN initialCards[card]
    ELSE created[card - Len(initialCards)]

----------------------------------------------------------------------------
(* JavaScript Set and Map, in insertion order *)

SetHas(s, c) == \E i \in 1..Len(s) : s[i] = c

SetAdd(s, c) == IF SetHas(s, c) THEN s ELSE Append(s, c)

SetDelete(s, c) == SelectSeq(s, LAMBDA x : x # c)

SetElems(s) == {s[i] : i \in 1..Len(s)}

MapHas(m, k) == \E i \in 1..Len(m) : m[i].bucket = k

MapIndex(m, k) == CHOOSE i \in 1..Len(m) : m[i].bucket = k

MapGet(m, k) == m[MapIndex(m, k)].flashcards

MapSet(m, k, v) ==
    IF MapHas(m, k)
    THEN [m EXCEPT ![MapIndex(m, k)].flashcards = v]
    ELSE Append(m, [bucket |-> k, flashcards |-> v])

MathMax(a, b) == IF a >= b THEN a ELSE b

----------------------------------------------------------------------------
(* logic/algorithm.ts *)

RECURSIVE MaxKey(_, _)
\* Math.max(0, ...buckets.keys())
MaxKey(buckets, k) ==
    IF k > Len(buckets) THEN 0
    ELSE MathMax(buckets[k].bucket, MaxKey(buckets, k + 1))

RECURSIVE FillBucketArray(_, _, _)
\* for (const [bucket, flashcards] of buckets.entries()) bucketArray[bucket] = new Set(flashcards)
FillBucketArray(bucketArray, buckets, k) ==
    IF k > Len(buckets) THEN bucketArray
    ELSE FillBucketArray(
             [bucketArray EXCEPT ![buckets[k].bucket + 1] = buckets[k].flashcards],
             buckets, k + 1)

\* toBucketSets without the early return for a map of size 0
toBucketSetsOfAnySize(buckets) ==
    LET maxBucket == MaxKey(buckets, 1)
        bucketArray == [i \in 1..(maxBucket + 1) |-> <<>>]
    IN  FillBucketArray(bucketArray, buckets, 1)

\* Element i + 1 of the result is bucketArray[i] of the code.
toBucketSets(buckets) ==
    IF Len(buckets) = 0 THEN <<>>
    ELSE LET maxBucket == MaxKey(buckets, 1)
             bucketArray == [i \in 1..(maxBucket + 1) |-> <<>>]
         IN  FillBucketArray(bucketArray, buckets, 1)

\* SetObjectAt with bucketArray[bucket] = flashcards for the loop's assignment
SetObjectAtShared(buckets, index) ==
    IF MapHas(buckets, index) THEN MapIndex(buckets, index) ELSE 0

\* Which Set object bucketArray[index] of toBucketSets(buckets) is: k > 0 for
\* the Set object of entry k of the map, 0 for an object the call has made.
\* The call makes every one of them: () => new Set(), new Set(flashcards).
SetObjectAt(buckets, index) == 0

RECURSIVE AddAll(_, _, _)
\* flashcards.forEach((card) => reviewSet.add(card))
AddAll(reviewSet, flashcards, k) ==
    IF k > Len(flashcards) THEN reviewSet
    ELSE AddAll(SetAdd(reviewSet, flashcards[k]), flashcards, k + 1)

\* IsDue taking the index for 1-based: day % (index + 2)
IsDueOneBased(day, index) == day % (index + 2) = 0

\* the test of the forEach callback; index is the code's 0-based index
IsDue(day, index) == day % (index + 1) = 0

RECURSIVE PracticeFrom(_, _, _, _)
\* buckets.forEach((flashcards, index) => ...), from position k on
PracticeFrom(reviewSet, buckets, day, k) ==
    IF k > Len(buckets) THEN reviewSet
    ELSE PracticeFrom(
             IF IsDue(day, k - 1) THEN AddAll(reviewSet, buckets[k], 1) ELSE reviewSet,
             buckets, day, k + 1)

practice(buckets, day) == PracticeFrom(<<>>, buckets, day, 1)

\* The entry the loop of update stops at: the first one whose set has the
\* card, or 0 when the loop runs to its end.
FirstEntryWith(buckets, card) ==
    IF \E i \in 1..Len(buckets) : SetHas(buckets[i].flashcards, card)
    THEN CHOOSE i \in 1..Len(buckets) :
             /\ SetHas(buckets[i].flashcards, card)
             /\ \A j \in 1..(i - 1) : ~SetHas(buckets[j].flashcards, card)
    ELSE 0

\* NewBucket with Wrong demoting by one bucket instead of to bucket 0
NewBucketDemoteByOne(currentBucket, difficulty) ==
    MathMax(0, IF difficulty = Wrong THEN currentBucket - 1
               ELSE IF difficulty = Hard THEN currentBucket + 1
               ELSE currentBucket + 2)

NewBucket(currentBucket, difficulty) ==
    MathMax(0, IF difficulty = Wrong THEN 0
               ELSE IF difficulty = Hard THEN currentBucket + 1
               ELSE currentBucket + 2)

\* FindAndDelete without flashcards.delete(card)
FindWithoutDelete(buckets, card) ==
    LET i == FirstEntryWith(buckets, card)
    IN  [currentBucket |-> IF i = 0 THEN 0 ELSE buckets[i].bucket, buckets |-> buckets]

\* The loop of update: [currentBucket, buckets after flashcards.delete(card)]
FindAndDelete(buckets, card) ==
    LET i == FirstEntryWith(buckets, card)
    IN  IF i = 0
        THEN [currentBucket |-> 0, buckets |-> buckets]
        ELSE [currentBucket |-> buckets[i].bucket,
              buckets |-> [buckets EXCEPT ![i].flashcards = SetDelete(@, card)]]

\* update with buckets.set(newBucket, new Set([card])) for its last two steps
updateOverwriting(buckets, card, difficulty) ==
    LET found == FindAndDelete(buckets, card)
    IN  MapSet(found.buckets, NewBucket(found.currentBucket, difficulty), <<card>>)

\* update mutates the map it is given and returns it
update(buckets, card, difficulty) ==
    LET found == FindAndDelete(buckets, card)
        newBucket == NewBucket(found.currentBucket, difficulty)
        withBucket == IF ~MapHas(found.buckets, newBucket)
                      THEN MapSet(found.buckets, newBucket, <<>>)
                      ELSE found.buckets
    IN  MapSet(withBucket, newBucket, SetAdd(MapGet(withBucket, newBucket), card))

getHint(card) == Deref(card).hint

threshold == 3

RECURSIVE CountFromAboveThreshold(_, _, _)
\* CountFrom counting a bucket as learned only above the threshold
CountFromAboveThreshold(acc, buckets, k) ==
    IF k > Len(buckets) THEN acc
    ELSE CountFromAboveThreshold(
             [totalCards |-> acc.totalCards + Len(buckets[k].flashcards),
              highBucketCards |-> IF buckets[k].bucket > threshold
                                  THEN acc.highBucketCards + Len(buckets[k].flashcards)
                                  ELSE acc.highBucketCards],
             buckets, k + 1)

RECURSIVE CountFrom(_, _, _)
\* the loop of computeProgress: [totalCards, highBucketCards]
CountFrom(acc, buckets, k) ==
    IF k > Len(buckets) THEN acc
    ELSE CountFrom(
             [totalCards |-> acc.totalCards + Len(buckets[k].flashcards),
              highBucketCards |-> IF buckets[k].bucket >= threshold
                                  THEN acc.highBucketCards + Len(buckets[k].flashcards)
                                  ELSE acc.highBucketCards],
             buckets, k + 1)

\* The function returns one number, completion: here the quotient num / den
\* of two integers, (highBucketCards / totalCards) * 100 taken exactly.
computeProgress(buckets) ==
    LET c == CountFrom([totalCards |-> 0, highBucketCards |-> 0], buckets, 1)
    IN  IF c.totalCards > 0
        THEN [num |-> c.highBucketCards * 100, den |-> c.totalCards]
        ELSE [num |-> 0, den |-> 1]

----------------------------------------------------------------------------
(* state.ts *)

\* new Set(initialCards): the initial cards are the references 1..12
InitialSet == [i \in 1..Len(initialCards) |-> i]

RECURSIVE FindInSetByFront(_, _, _, _)
\* FindInSet comparing the front alone
FindInSetByFront(set, front, back, k) ==
    IF k > Len(set) THEN NoCard
    ELSE IF Deref(set[k]).front = front THEN set[k]
    ELSE FindInSetByFront(set, front, back, k + 1)

RECURSIVE FindInSet(_, _, _, _)
\* for (const card of set) if (card.front === front && card.back === back) return card
FindInSet(set, front, back, k) ==
    IF k > Len(set) THEN NoCard
    ELSE IF Deref(set[k]).front = front /\ Deref(set[k]).back = back THEN set[k]
    ELSE FindInSet(set, front, back, k + 1)

\* FindCardFrom returning after the first set, matching card or not
FindCardFromFirstSet(buckets, front, back, k) ==
    IF k > Len(buckets) THEN NoCard
    ELSE FindInSet(buckets[k].flashcards, front, back, 1)

RECURSIVE FindCardFrom(_, _, _, _)
\* for (const set of currentBuckets.values()), from entry k on
FindCardFrom(buckets, front, back, k) ==
    IF k > Len(buckets) THEN NoCard
    ELSE LET c == FindInSet(buckets[k].flashcards, front, back, 1)
         IN  IF c # NoCard THEN c ELSE FindCardFrom(buckets, front, back, k + 1)

findCard(front, back) == FindCardFrom(currentBuckets, front, back, 1)

\* findCardBucket read against the map m that currentBuckets holds
FindCardBucketIn(m, cardToFind) ==
    LET i == FirstEntryWith(m, cardToFind)
    IN  IF i = 0 THEN NoBucket ELSE m[i].bucket

findCardBucket(cardToFind) == FindCardBucketIn(currentBuckets, cardToFind)

\* the writers of state.ts: each is the assignment it makes
setBuckets(newBuckets) == currentBuckets' = newBuckets

\* addHistoryRecord with practiceHistory.unshift(record)
addHistoryRecordInFront(record) == practiceHistory' = <<record>> \o practiceHistory

\* practiceHistory.push(record)
addHistoryRecord(record) == practiceHistory' = Append(practiceHistory, record)

incrementDay == currentDay' = currentDay + 1

\* resetState that leaves the day as it is
resetStateKeepingDay ==
    /\ currentBuckets' = << [bucket |-> 0, flashcards |-> InitialSet] >>
    /\ practiceHistory' = <<>>
    /\ currentDay' = currentDay

\* resetState that leaves the bucket map as it is
resetStateKeepingBuckets ==
    /\ currentBuckets' = currentBuckets
    /\ practiceHistory' = <<>>
    /\ currentDay' = 0

resetState ==
    /\ currentBuckets' = << [bucket |-> 0, flashcards |-> InitialSet] >>
    /\ practiceHistory' = <<>>
    /\ currentDay' = 0

----------------------------------------------------------------------------
(* The frontend before its components are mounted *)

\* no PracticeView
NotMounted == [mounted |-> FALSE]

\* no detection loop
NotRunning == [running |-> FALSE]

----------------------------------------------------------------------------
(* What a call or a request leaves in `last` *)

PreState == [buckets |-> currentBuckets, history |-> practiceHistory, day |-> currentDay]

Call(op, status, req, card, result) ==
    [op |-> op, status |-> status, req |-> req, card |-> card,
     result |-> result, pre |-> PreState]

NoCall == [op |-> "none", status |-> 0, req |-> <<>>, card |-> NoCard,
           result |-> <<>>,
           pre |-> [buckets |-> <<>>, history |-> <<>>, day |-> 0]]

----------------------------------------------------------------------------
(* server.ts: what the requests carry *)

\* a difficulty in a request body that is none of the enum's values
NotADifficulty == 3

FranceFront == "What is the capital of France?"

UpdateBodies ==
    {[cardFront |-> f, cardBack |-> "Paris", difficulty |-> d] :
        f \in {FranceFront, "Test Front"}, d \in AnswerDifficulty \cup {NotADifficulty}}
    \cup {[cardFront |-> FranceFront, cardBack |-> Undefined, difficulty |-> NotADifficulty]}

HintQueries ==
    {[cardFront |-> FranceFront, cardBack |-> "Paris"],
     [cardFront |-> "Test Front", cardBack |-> "Paris"],
     [cardFront |-> "Test Front", cardBack |-> Undefined]}

FlashcardBodies ==
    {[front |-> FranceFront, back |-> "Paris", hint |-> "Example hint"],
     [front |-> "Test Front", back |-> "Paris", hint |-> Undefined],
     [front |-> "", back |-> "Paris", hint |-> "Example hint"],
     [front |-> "Test Front", back |-> Undefined, hint |-> Undefined]}

\* Falsy without the empty string
FalsyWhenAbsent(x) == x = Undefined

\* !x of a request field: absent or the empty string
Falsy(x) == x = Undefined \/ x = ""

----------------------------------------------------------------------------
(* server.ts: the handlers.  A handler runs to completion: one action each. *)

\* the requests served so far that changed the state: every update answered
\* 200 left a record, every creation a card, every day advance a day
Writes == Len(practiceHistory) + Len(created) + currentDay

\* GetPractice that also begins the next day
GetPracticeAdvancingDay ==
    LET day == currentDay
        cards == practice(toBucketSets(currentBuckets), day)
    IN  /\ last' = Call("GET /api/practice", 200, <<>>, NoCard, [cards |-> cards, day |-> day])
        /\ currentDay' = currentDay + 1
        /\ UNCHANGED <<created, currentBuckets, practiceHistory, calls, tasks, view, loop>>

GetPractice ==
    LET day == currentDay
        bucketSets == toBucketSets(currentBuckets)
        cards == practice(bucketSets, day)
    IN  /\ last' = Call("GET /api/practice", 200, <<>>, NoCard, [cards |-> cards, day |-> day])
        /\ UNCHANGED <<created, currentBuckets, practiceHistory, currentDay, calls, tasks, view, loop>>

\* PostUpdate reading newBucket before update has run
PostUpdateStaleNewBucket(body) ==
    LET card == findCard(body.cardFront, body.cardBack)
    IN  IF card = NoCard
        THEN /\ last' = Call("POST /api/update", 404, body, NoCard, <<>>)
             /\ UNCHANGED <<created, currentBuckets, practiceHistory, currentDay, calls, tasks, view, loop>>
        ELSE LET previousBucket == findCardBucket(card)
                 newBucket == findCardBucket(card)
                 updatedBuckets == update(currentBuckets, card, body.difficulty)
                 record == [cardFront |-> Deref(card).front,
                            cardBack |-> Deref(card).back,
                            difficulty |-> body.difficulty,
                            previousBucket |-> previousBucket,
                            newBucket |-> newBucket]
             IN  /\ Writes < MaxWrites
                 /\ setBuckets(updatedBuckets)
                 /\ addHistoryRecord(record)
                 /\ last' = Call("POST /api/update", 200, body, card, <<>>)
                 /\ UNCHANGED <<created, currentDay, calls, tasks, view, loop>>

\* The record's timestamp (Date.now()) is read by nothing: left out.
PostUpdate(body) ==
    LET card == findCard(body.cardFront, body.cardBack)
    IN  IF card = NoCard
        THEN /\ last' = Call("POST /api/update", 404, body, NoCard, <<>>)
             /\ UNCHANGED <<created, currentBuckets, practiceHistory, currentDay, calls, tasks, view, loop>>
        ELSE LET previousBucket == findCardBucket(card)
                 updatedBuckets == update(currentBuckets, card, body.difficulty)
                 newBucket == FindCardBucketIn(updatedBuckets, card)
                 record == [cardFront |-> Deref(card).front,
                            cardBack |-> Deref(card).back,
                            difficulty |-> body.difficulty,
                            previousBucket |-> previousBucket,
                            newBucket |-> newBucket]
             IN  /\ Writes < MaxWrites
                 /\ setBuckets(updatedBuckets)
                 /\ addHistoryRecord(record)
                 /\ last' = Call("POST /api/update", 200, body, card, <<>>)
                 /\ UNCHANGED <<created, currentDay, calls, tasks, view, loop>>

GetHint(query) ==
    IF query.cardFront = Undefined \/ query.cardBack = Undefined
    THEN /\ last' = Call("GET /api/hint", 400, query, NoCard, <<>>)
         /\ UNCHANGED <<created, currentBuckets, practiceHistory, currentDay, calls, tasks, view, loop>>
    ELSE LET card == findCard(query.cardFront, query.cardBack)
         IN  /\ last' = IF card = NoCard
                        THEN Call("GET /api/hint", 404, query, NoCard, <<>>)
                        ELSE Call("GET /api/hint", 200, query, card, getHint(card))
             /\ UNCHANGED <<created, currentBuckets, practiceHistory, currentDay, calls, tasks, view, loop>>

GetProgress ==
    /\ last' = Call("GET /api/progress", 200, <<>>, NoCard, computeProgress(currentBuckets))
    /\ UNCHANGED <<created, currentBuckets, practiceHistory, currentDay, calls, tasks, view, loop>>

\* PostDayNext that begins the new day with an empty history
PostDayNextClearingHistory ==
    /\ Writes < MaxWrites
    /\ incrementDay
    /\ practiceHistory' = <<>>
    /\ last' = Call("POST /api/day/next", 200, <<>>, NoCard, currentDay + 1)
    /\ UNCHANGED <<created, currentBuckets, calls, tasks, view, loop>>

PostDayNext ==
    /\ Writes < MaxWrites
    /\ incrementDay
    /\ last' = Call("POST /api/day/next", 200, <<>>, NoCard, currentDay + 1)
    /\ UNCHANGED <<created, currentBuckets, practiceHistory, calls, tasks, view, loop>>

\* PostFlashcards beginning from new Map() instead of new Map(currentBuckets)
PostFlashcardsFreshMap(body) ==
    IF Falsy(body.front) \/ Falsy(body.back)
    THEN /\ last' = Call("POST /api/flashcards", 400, body, NoCard, <<>>)
         /\ UNCHANGED <<created, currentBuckets, practiceHistory, currentDay, calls, tasks, view, loop>>
    ELSE LET card == Len(initialCards) + Len(created) + 1
             updatedBuckets == MapSet(<<>>, 0, <<card>>)
         IN  /\ Writes < MaxWrites
             /\ created' = Append(created, Flashcard(body.front, body.back,
                                                      IF Falsy(body.hint) THEN "" ELSE body.hint))
             /\ setBuckets(updatedBuckets)
             /\ last' = Call("POST /api/flashcards", 201, body, card, <<>>)
             /\ UNCHANGED <<practiceHistory, currentDay, calls, tasks, view, loop>>

PostFlashcards(body) ==
    IF Falsy(body.front) \/ Falsy(body.back)
    THEN /\ last' = Call("POST /api/flashcards", 400, body, NoCard, <<>>)
         /\ UNCHANGED <<created, currentBuckets, practiceHistory, currentDay, calls, tasks, view, loop>>
    ELSE LET card == Len(initialCards) + Len(created) + 1
             withZero == IF ~MapHas(currentBuckets, 0)
                         THEN MapSet(currentBuckets, 0, <<>>)
                         ELSE currentBuckets
             updatedBuckets == MapSet(withZero, 0, SetAdd(MapGet(withZero, 0), card))
         IN  /\ Writes < MaxWrites
             /\ created' = Append(created, Flashcard(body.front, body.back,
                                                      IF Falsy(body.hint) THEN "" ELSE body.hint))
             /\ setBuckets(updatedBuckets)
             /\ last' = Call("POST /api/flashcards", 201, body, card, <<>>)
             /\ UNCHANGED <<practiceHistory, currentDay, calls, tasks, view, loop>>

Init ==
    /\ created = <<>>
    /\ currentBuckets = << [bucket |-> 0, flashcards |-> InitialSet] >>
    /\ practiceHistory = <<>>
    /\ currentDay = 0
    /\ calls = 0
    /\ tasks = <<>>
    /\ view = NotMounted
    /\ loop = NotRunning
    /\ last = NoCall

Next ==
    \/ GetPractice
    \/ \E body \in UpdateBodies : PostUpdate(body)
    \/ \E query \in HintQueries : GetHint(query)
    \/ GetProgress
    \/ PostDayNext
    \/ \E body \in FlashcardBodies : PostFlashcards(body)

Spec == Init /\ [][Next]_vars

----------------------------------------------------------------------------
(* state.ts called directly, as tests/state.test.ts calls it, between the   *)
(* requests the server handles.                                             *)

\* the record the test adds
TestRecords ==
    {[cardFront |-> FranceFront, cardBack |-> "Paris", difficulty |-> Easy,
      previousBucket |-> 0, newBucket |-> 1]}

CallIncrementDay ==
    /\ Writes < MaxWrites
    /\ incrementDay
    /\ last' = Call("incrementDay", 0, <<>>, NoCard, <<>>)
    /\ UNCHANGED <<created, currentBuckets, practiceHistory, calls, tasks, view, loop>>

CallAddHistoryRecord(record) ==
    /\ Writes < MaxWrites
    /\ addHistoryRecord(record)
    /\ last' = Call("addHistoryRecord", 0, record, NoCard, <<>>)
    /\ UNCHANGED <<created, currentBuckets, currentDay, calls, tasks, view, loop>>

\* The cards created before the reset are referenced by nothing afterwards.
CallResetState ==
    /\ resetState
    /\ created' = <<>>
    /\ last' = Call("resetState", 0, <<>>, NoCard, <<>>)
    /\ UNCHANGED <<calls, tasks, view, loop>>

StateNext ==
    \/ Next
    \/ CallIncrementDay
    \/ \E record \in TestRecords : CallAddHistoryRecord(record)
    \/ CallResetState

StateSpec == Init /\ [][StateNext]_vars

----------------------------------------------------------------------------
(* server.ts with several update requests under way.  A request that has    *)
(* arrived waits in `tasks` until the event loop runs its handler, which    *)
(* has no await and so runs from its first statement to its last; requests  *)
(* need not be served in the order they were sent.                          *)

ConcurrentBodies ==
    {body \in UpdateBodies :
        body.cardBack = "Paris" /\ body.difficulty \in AnswerDifficulty}

SubmitUpdate(body) ==
    /\ Len(tasks) < MaxWrites
    /\ tasks' = Append(tasks, [req |-> body, done |-> FALSE])
    /\ UNCHANGED <<created, currentBuckets, practiceHistory, currentDay, calls, view, loop, last>>

\* ServeUpdate with previousBucket read before the request served just
\* before this one had written: the handler suspended after its reads
ServeUpdateAfterAwait(i) ==
    LET body == tasks[i].req
        card == findCard(body.cardFront, body.cardBack)
        before == IF last.op = "POST /api/update" THEN last.pre.buckets ELSE currentBuckets
    IN  /\ ~tasks[i].done
        /\ tasks' = [tasks EXCEPT ![i].done = TRUE]
        /\ IF card = NoCard
           THEN /\ last' = Call("POST /api/update", 404, body, NoCard, <<>>)
                /\ UNCHANGED <<currentBuckets, practiceHistory>>
           ELSE LET previousBucket == FindCardBucketIn(before, card)
                    updatedBuckets == update(currentBuckets, card, body.difficulty)
                    newBucket == FindCardBucketIn(updatedBuckets, card)
                    record == [cardFront |-> Deref(card).front,
                               cardBack |-> Deref(card).back,
                               difficulty |-> body.difficulty,
                               previousBucket |-> previousBucket,
                               newBucket |-> newBucket]
                IN  /\ setBuckets(updatedBuckets)
                    /\ addHistoryRecord(record)
                    /\ last' = Call("POST /api/update", 200, body, card, <<>>)
        /\ UNCHANGED <<created, currentDay, calls, view, loop>>

\* the handler of POST /api/update run for the request tasks[i]
ServeUpdate(i) ==
    LET body == tasks[i].req
        card == findCard(body.cardFront, body.cardBack)
    IN  /\ ~tasks[i].done
        /\ tasks' = [tasks EXCEPT ![i].done = TRUE]
        /\ IF card = NoCard
           THEN /\ last' = Call("POST /api/update", 404, body, NoCard, <<>>)
                /\ UNCHANGED <<currentBuckets, practiceHistory>>
           ELSE LET previousBucket == findCardBucket(card)
                    updatedBuckets == update(currentBuckets, card, body.difficulty)
                    newBucket == FindCardBucketIn(updatedBuckets, card)
                    record == [cardFront |-> Deref(card).front,
                               cardBack |-> Deref(card).back,
                               difficulty |-> body.difficulty,
                               previousBucket |-> previousBucket,
                               newBucket |-> newBucket]
                IN  /\ setBuckets(updatedBuckets)
                    /\ addHistoryRecord(record)
                    /\ last' = Call("POST /api/update", 200, body, card, <<>>)
        /\ UNCHANGED <<created, currentDay, calls, view, loop>>

ConcNext ==
    \/ \E body \in ConcurrentBodies : SubmitUpdate(body)
    \/ \E i \in 1..Len(tasks) : ServeUpdate(i)

ConcSpec == Init /\ [][ConcNext]_vars

----------------------------------------------------------------------------
(* logic/algorithm.ts called directly, as its tests call it: on any bucket  *)
(* map in which a card is in at most one bucket, with any card, present in  *)
(* the map or not.  The map handed over is kept in currentBuckets.          *)

\* the cards of these maps: the first two of initialCards
AlgCards == {1, 2}

\* the keys of such a map, inserted in ascending order
KeySeqs ==
    {keys \in UNION {[1..n -> 0..MaxStartBucket] : n \in 0..(MaxStartBucket + 1)} :
        \A i, j \in 1..Len(keys) : i < j => keys[i] < keys[j]}

\* the map with these keys in which card c is in bucket pos[c], if any
StoreOf(keys, pos) ==
    [i \in 1..Len(keys) |->
        [bucket |-> keys[i],
         flashcards |-> SelectSeq(<<1, 2>>, LAMBDA c : pos[c] = keys[i])]]

AlgStores ==
    {StoreOf(x[1], x[2]) :
        x \in {y \in KeySeqs \X [AlgCards -> {NoBucket} \cup (0..MaxStartBucket)] :
                  \A c \in AlgCards :
                      y[2][c] = NoBucket \/ \E i \in 1..Len(y[1]) : y[1][i] = y[2][c]}}

CallUpdate(card, difficulty) ==
    /\ calls < MaxCalls
    /\ calls' = calls + 1
    /\ currentBuckets' = update(currentBuckets, card, difficulty)
    /\ last' = Call("update", 0, [card |-> card, difficulty |-> difficulty], card, <<>>)
    /\ UNCHANGED <<created, practiceHistory, currentDay, tasks, view, loop>>

CallPractice(day) ==
    LET buckets == toBucketSets(currentBuckets)
    IN  /\ last' = Call("practice", 0, [buckets |-> buckets, day |-> day], NoCard,
                        practice(buckets, day))
        /\ UNCHANGED <<created, currentBuckets, practiceHistory, currentDay, calls, tasks, view, loop>>

\* bucketArray = toBucketSets(buckets); bucketArray[index].add(card):
\* the map changes if the Set object added to is one of the map's
CallToBucketSets(index, card) ==
    LET bucketArray == toBucketSets(currentBuckets)
        shared == SetObjectAt(currentBuckets, index)
    IN  /\ index < Len(bucketArray)
        /\ currentBuckets' =
               IF shared = 0 THEN currentBuckets
               ELSE [currentBuckets EXCEPT ![shared].flashcards = SetAdd(@, card)]
        /\ last' = Call("toBucketSets", 0, [index |-> index, card |-> card], card, bucketArray)
        /\ UNCHANGED <<created, practiceHistory, currentDay, calls, tasks, view, loop>>

CallComputeProgress ==
    /\ last' = Call("computeProgress", 0, <<>>, NoCard, computeProgress(currentBuckets))
    /\ UNCHANGED <<created, currentBuckets, practiceHistory, currentDay, calls, tasks, view, loop>>

AlgInit ==
    /\ created = <<>>
    /\ currentBuckets \in AlgStores
    /\ practiceHistory = <<>>
    /\ currentDay = 0
    /\ calls = 0
    /\ tasks = <<>>
    /\ view = NotMounted
    /\ loop = NotRunning
    /\ last = NoCall

AlgNext ==
    \/ \E card \in AlgCards, difficulty \in AnswerDifficulty : CallUpdate(card, difficulty)
    \/ \E day \in 0..MaxDay : CallPractice(day)
    \/ CallComputeProgress
    \/ \E index \in 0..(MaxStartBucket + MaxCalls), card \in AlgCards :
           CallToBucketSets(index, card)

AlgSpec == AlgInit /\ [][AlgNext]_vars

----------------------------------------------------------------------------
(* PracticeView.tsx (the component of lines 1-266).  The backend is what    *)
(* its answers are: a list of due cards and the day for fetchPracticeCards, *)
(* nothing for submitAnswer, a day advanced for advanceDay.  An entry of    *)
(* `tasks` is a request the component has sent, done once its answer has    *)
(* been handled, or a timer it has set, removed when it fires.  An entry    *)
(* keeps what the closure that made it holds: the index, the cards, the     *)
(* day.  cardKey is read by nothing but React: left out.                    *)

Null == "<null>"

\* the delay before the next card is shown, in ms
NextCardDelay == 300

\* the delay before a gesture's answer is submitted, in ms
FeedbackDelay == 800

\* the time within which PracticeView ignores a repeated gesture, in ms
GestureCooldown == 2500

\* what fetchPracticeCards can answer: the first cards of the initial ones
DueLists == {[i \in 1..n |-> i] : n \in 0..MaxDue}

Gestures == {"thumbs_up", "thumbs_down", "victory"}

\* the values of useState and useRef; sinceGesture is
\* Date.now() - lastGestureTimeRef.current, counted up to GestureCooldown + 1;
\* load counts the answers of fetchPracticeCards: practiceCards is of the last
InitialView ==
    [mounted |-> TRUE, practiceCards |-> <<>>, currentCardIndex |-> 0,
     showBack |-> FALSE, isLoading |-> FALSE, error |-> Null, day |-> 1,
     sessionFinished |-> FALSE, showGestureControls |-> FALSE,
     gestureMessage |-> Null, lastGestureRef |-> Null,
     sinceGesture |-> GestureCooldown + 1, load |-> 0]

\* a request or a timer of a closure made when the list on display was that
\* of the given load
Task(kind, index, cards, difficulty, load, wait) ==
    [kind |-> kind, done |-> FALSE, index |-> index, cards |-> cards,
     difficulty |-> difficulty, day |-> view.day, load |-> load, wait |-> wait]

IsTimer(task) == task.kind \in {"next card", "answer"}

Pending(i, kind) == tasks[i].kind = kind /\ ~tasks[i].done

\* the request i has been answered: its closure has run to its end
Answered(i) == [tasks EXCEPT ![i].done = TRUE, ![i].difficulty = 0]

\* the sequence without its element i
Without(seq, i) == SubSeq(seq, 1, i - 1) \o SubSeq(seq, i + 1, Len(seq))

\* a timer fires when its time has come and no timer set before it waits
\* for the same moment
Fires(i) ==
    /\ IsTimer(tasks[i])
    /\ tasks[i].wait = 0
    /\ \A j \in 1..(i - 1) : ~(IsTimer(tasks[j]) /\ tasks[j].wait = 0)

\* the component renders the card view: not loading, no error, not finished
CardViewRendered ==
    /\ view.mounted
    /\ ~view.isLoading
    /\ view.error = Null
    /\ ~view.sessionFinished

\* practiceCards[currentCardIndex] is a card
CurrentCardDefined == view.currentCardIndex < Len(view.practiceCards)

\* loadPracticeCards up to its await
LoadStarted(v) == [v EXCEPT !.isLoading = TRUE, !.error = Null, !.sessionFinished = FALSE]

\* what no action of the component changes
ViewUnchanged == UNCHANGED <<created, currentBuckets, practiceHistory, calls, loop>>

\* handleAnswer up to its await, run by a closure that holds index and cards
HandleAnswerBegins(index, cards, difficulty, load, rest) ==
    IF index < Len(cards)
    THEN /\ tasks' = Append(rest, Task("submitAnswer", index, cards, difficulty, load, 0))
         /\ view' = view
         /\ last' = Call("submitAnswer", 0, [index |-> index, difficulty |-> difficulty],
                         cards[index + 1], <<>>)
    ELSE \* currentCard is undefined: currentCard.front throws, the catch runs
         /\ tasks' = rest
         /\ view' = [view EXCEPT !.error = "Failed to submit answer."]
         /\ last' = Call("handleAnswer", 0, [index |-> index, difficulty |-> difficulty],
                         NoCard, <<>>)

\* loadPracticeCards after its await: the backend has answered
FetchResponds(i, cards) ==
    /\ Pending(i, "fetchPracticeCards")
    /\ tasks' = [Answered(i) EXCEPT ![i].cards = cards, ![i].day = currentDay,
                                    ![i].load = view.load + 1]
    /\ view' = [view EXCEPT !.practiceCards = cards,
                            !.day = currentDay,
                            !.load = @ + 1,
                            !.sessionFinished = (Len(cards) = 0),
                            !.currentCardIndex = IF Len(cards) = 0 THEN @ ELSE 0,
                            !.isLoading = FALSE]
    /\ last' = Call("fetchPracticeCards", 200, <<>>, NoCard, [cards |-> cards, day |-> currentDay])
    /\ UNCHANGED currentDay
    /\ ViewUnchanged

\* the catch of the function that sent the request
RequestFails(i) ==
    /\ ~tasks[i].done
    /\ ~IsTimer(tasks[i])
    /\ tasks' = Answered(i)
    /\ view' = CASE tasks[i].kind = "fetchPracticeCards" ->
                        [view EXCEPT !.error = "Failed to load practice cards.",
                                     !.isLoading = FALSE]
                 [] tasks[i].kind = "submitAnswer" ->
                        [view EXCEPT !.error = "Failed to submit answer."]
                 [] OTHER ->
                        [view EXCEPT !.error = "Failed to advance to next day."]
    /\ last' = Call(tasks[i].kind, 500, <<>>, NoCard, <<>>)
    /\ UNCHANGED currentDay
    /\ ViewUnchanged

handleShowBack ==
    /\ CardViewRendered
    /\ ~view.showBack
    /\ view' = [view EXCEPT !.showBack = TRUE, !.gestureMessage = Null]
    /\ last' = Call("handleShowBack", 0, <<>>, NoCard, <<>>)
    /\ UNCHANGED <<tasks, currentDay>>
    /\ ViewUnchanged

\* a click on one of the three buttons, rendered with the card when its
\* back is shown and no gesture message is
ClickAnswer(difficulty) ==
    /\ CardViewRendered
    /\ CurrentCardDefined
    /\ view.showBack
    /\ view.gestureMessage = Null
    /\ Len(tasks) < MaxTasks
    /\ HandleAnswerBegins(view.currentCardIndex, view.practiceCards, difficulty, view.load, tasks)
    /\ UNCHANGED currentDay
    /\ ViewUnchanged

\* SubmitResponds with <= for the < of its test
SubmitRespondsNeverFinishing(i) ==
    /\ Pending(i, "submitAnswer")
    /\ view' = [view EXCEPT !.showBack = FALSE,
                            !.gestureMessage = Null,
                            !.sessionFinished =
                                IF tasks[i].index + 1 <= Len(tasks[i].cards) THEN @ ELSE TRUE]
    /\ tasks' = IF tasks[i].index + 1 <= Len(tasks[i].cards)
                THEN Append(Answered(i),
                            Task("next card", tasks[i].index, tasks[i].cards,
                                 0, tasks[i].load, NextCardDelay))
                ELSE Answered(i)
    /\ last' = Call("submitAnswer", 200, [index |-> tasks[i].index], NoCard, <<>>)
    /\ UNCHANGED currentDay
    /\ ViewUnchanged

\* handleAnswer after its await
SubmitResponds(i) ==
    /\ Pending(i, "submitAnswer")
    /\ view' = [view EXCEPT !.showBack = FALSE,
                            !.gestureMessage = Null,
                            !.sessionFinished =
                                IF tasks[i].index + 1 < Len(tasks[i].cards) THEN @ ELSE TRUE]
    /\ tasks' = IF tasks[i].index + 1 < Len(tasks[i].cards)
                THEN Append(Answered(i),
                            Task("next card", tasks[i].index, tasks[i].cards,
                                 0, tasks[i].load, NextCardDelay))
                ELSE Answered(i)
    /\ last' = Call("submitAnswer", 200, [index |-> tasks[i].index], NoCard, <<>>)
    /\ UNCHANGED currentDay
    /\ ViewUnchanged

\* the timer of handleAnswer: setCurrentCardIndex((prev) => prev + 1)
NextCard(i) ==
    /\ tasks[i].kind = "next card"
    /\ Fires(i)
    /\ tasks' = Without(tasks, i)
    /\ view' = [view EXCEPT !.currentCardIndex = @ + 1]
    /\ last' = Call("next card", 0, <<>>, NoCard, <<>>)
    /\ UNCHANGED currentDay
    /\ ViewUnchanged

\* a click on Go to Next Day: handleNextDay up to its await
handleNextDay ==
    /\ view.mounted
    /\ ~view.isLoading
    /\ view.error = Null
    /\ view.sessionFinished
    /\ Len(tasks) < MaxTasks
    /\ currentDay < MaxDay
    /\ tasks' = Append(tasks, Task("advanceDay", 0, <<>>, 0, view.load, 0))
    /\ last' = Call("handleNextDay", 0, <<>>, NoCard, <<>>)
    /\ UNCHANGED <<view, currentDay>>
    /\ ViewUnchanged

\* the backend advances its day and handleNextDay goes on after its await
AdvanceResponds(i) ==
    /\ Pending(i, "advanceDay")
    /\ incrementDay
    /\ tasks' = Append(Answered(i),
                       Task("fetchPracticeCards", 0, <<>>, 0, view.load, 0))
    /\ view' = [LoadStarted(view) EXCEPT !.showBack = FALSE, !.gestureMessage = Null]
    /\ last' = Call("advanceDay", 200, <<>>, NoCard, currentDay + 1)
    /\ ViewUnchanged

toggleGestureControls ==
    /\ CardViewRendered
    /\ view' = [view EXCEPT !.showGestureControls = ~@]
    /\ last' = Call("toggleGestureControls", 0, <<>>, NoCard, <<>>)
    /\ UNCHANGED <<tasks, currentDay>>
    /\ ViewUnchanged

DifficultyOf(gesture) ==
    CASE gesture = "thumbs_up" -> Easy
      [] gesture = "thumbs_down" -> Hard
      [] gesture = "victory" -> Wrong

MessageOf(gesture) ==
    CASE gesture = "thumbs_up" -> "Easy"
      [] gesture = "thumbs_down" -> "Hard"
      [] gesture = "victory" -> "Wrong"

\* GestureRecognizer, rendered with the card view when the controls are
\* shown, calls onGestureDetected
handleGestureDetected(gesture) ==
    /\ CardViewRendered
    /\ view.showGestureControls
    /\ Len(tasks) < MaxTasks
    /\ IF gesture # view.lastGestureRef \/ view.sinceGesture > GestureCooldown
       THEN IF view.showBack
            THEN /\ view' = [view EXCEPT !.lastGestureRef = gesture,
                                         !.sinceGesture = 0,
                                         !.gestureMessage = MessageOf(gesture)]
                 /\ tasks' = Append(tasks, Task("answer", view.currentCardIndex,
                                                view.practiceCards, DifficultyOf(gesture),
                                                view.load, FeedbackDelay))
            ELSE /\ view' = [view EXCEPT !.lastGestureRef = gesture, !.sinceGesture = 0]
                 /\ tasks' = tasks
       ELSE UNCHANGED <<view, tasks>>
    /\ last' = Call("handleGestureDetected", 0, gesture, NoCard, <<>>)
    /\ UNCHANGED currentDay
    /\ ViewUnchanged

\* the timer of handleGestureDetected: handleAnswer(difficulty)
AnswerAfterFeedback(i) ==
    /\ tasks[i].kind = "answer"
    /\ Fires(i)
    /\ HandleAnswerBegins(tasks[i].index, tasks[i].cards, tasks[i].difficulty,
                          tasks[i].load, Without(tasks, i))
    /\ UNCHANGED currentDay
    /\ ViewUnchanged

\* d ms pass, and no timer's moment is passed over
TimePasses(d) ==
    /\ d > 0
    /\ \A i \in 1..Len(tasks) : IsTimer(tasks[i]) => tasks[i].wait >= d
    /\ \/ \E i \in 1..Len(tasks) : IsTimer(tasks[i])
       \/ view.sinceGesture <= GestureCooldown
    /\ tasks' = [i \in 1..Len(tasks) |->
                    IF IsTimer(tasks[i]) THEN [tasks[i] EXCEPT !.wait = @ - d] ELSE tasks[i]]
    /\ view' = [view EXCEPT !.sinceGesture =
                   IF @ + d > GestureCooldown THEN GestureCooldown + 1 ELSE @ + d]
    /\ UNCHANGED <<currentDay, last>>
    /\ ViewUnchanged

\* the component is mounted and its effect has called loadPracticeCards
ViewInit ==
    /\ created = <<>>
    /\ currentBuckets = << [bucket |-> 0, flashcards |-> InitialSet] >>
    /\ practiceHistory = <<>>
    /\ currentDay = 0
    /\ calls = 0
    /\ view = LoadStarted(InitialView)
    /\ tasks = << [kind |-> "fetchPracticeCards", done |-> FALSE, index |-> 0,
                   cards |-> <<>>, difficulty |-> 0, day |-> 1, load |-> 0, wait |-> 0] >>
    /\ loop = NotRunning
    /\ last = NoCall

ViewNext ==
    \/ \E i \in 1..Len(tasks), cards \in DueLists : FetchResponds(i, cards)
    \/ \E i \in 1..Len(tasks) : RequestFails(i)
    \/ handleShowBack
    \/ \E difficulty \in AnswerDifficulty : ClickAnswer(difficulty)
    \/ \E i \in 1..Len(tasks) : SubmitResponds(i)
    \/ \E i \in 1..Len(tasks) : NextCard(i)
    \/ handleNextDay
    \/ \E i \in 1..Len(tasks) : AdvanceResponds(i)
    \/ toggleGestureControls
    \/ \E gesture \in Gestures : handleGestureDetected(gesture)
    \/ \E i \in 1..Len(tasks) : AnswerAfterFeedback(i)
    \/ \E d \in {tasks[i].wait : i \in 1..Len(tasks)} \cup {GestureCooldown + 1} : TimePasses(d)

ViewSpec == ViewInit /\ [][ViewNext]_vars

----------------------------------------------------------------------------
(* GestureRecognizer.tsx: the detection effect (lines 149-247).  `loop`    *)
(* holds the three variables the effect declares, with                     *)
(* now - lastGestureTime as sinceLast, counted up to GestureDelay + 1, and *)
(* stableGestureCount counted up to StableFrames + 1: the code compares    *)
(* them with these two numbers only.  The other fields record what was     *)
(* seen: the frame just handled, how many frames in a row up to it had the *)
(* same top gesture with high confidence, whether the callback has been    *)
(* invoked, by this run of the effect or an earlier one, and how long ago. *)
(* The model is taken to be loaded and the video ready.                    *)

\* stableGestureCount > 15
StableFrames == 15

\* now - lastGestureTime > 2000, in ms
GestureDelay == 2000

\* maxConfidence > 0.8, in tenths
StableConfidence == 8

\* the scores a top gesture is given here, in tenths
Confidences == {5, 9}

\* the time a pass of detectHands takes, estimateHands and the wait for the
\* next animation frame, in ms
FrameTimes == {100, 2100}

\* what a pass finds in the video
Detections ==
    {[hand |-> FALSE, gesture |-> "", confidence |-> 0],
     [hand |-> TRUE, gesture |-> "", confidence |-> 0]}
    \cup {[hand |-> TRUE, gesture |-> g, confidence |-> c] : g \in Gestures, c \in Confidences}

NoFrame == [hand |-> FALSE, gesture |-> "", confidence |-> 0]

UpTo(limit, n) == IF n > limit THEN limit + 1 ELSE n

\* the effect has run: let lastGestureTime = 0, stableGestureCount = 0,
\* currentStableGesture = ""
Started ==
    [running |-> TRUE, currentStableGesture |-> "", stableGestureCount |-> 0,
     sinceLast |-> GestureDelay + 1,
     frame |-> NoFrame, before |-> NoFrame, highFrames |-> 0,
     invoked |-> FALSE, sinceInvoked |-> GestureDelay + 1, countBefore |-> 0]

\* the frames in a row, this one included, whose top gesture is this one's
\* with confidence above 0.8
HighFramesAfter(detection) ==
    IF detection.gesture # "" /\ detection.confidence > StableConfidence
    THEN IF loop.frame.gesture = detection.gesture
              /\ loop.frame.confidence > StableConfidence
         THEN UpTo(StableFrames, loop.highFrames + 1)
         ELSE 1
    ELSE 0

\* the test that guards the call of onGestureDetected
Triggers(detection, dt) ==
    /\ detection.hand
    /\ detection.gesture # ""
    /\ detection.gesture = loop.currentStableGesture
    /\ detection.confidence > StableConfidence
    /\ loop.stableGestureCount + 1 > StableFrames
    /\ loop.sinceLast + dt > GestureDelay

\* one pass of detectHands, dt ms after the pass before it
detectHands(detection, dt) ==
    /\ loop.running
    /\ LET seen == [loop EXCEPT !.before = loop.frame,
                                !.frame = detection,
                                !.highFrames = HighFramesAfter(detection),
                                !.countBefore = loop.stableGestureCount,
                                !.sinceLast = UpTo(GestureDelay, @ + dt),
                                !.sinceInvoked = UpTo(GestureDelay, @ + dt)]
       IN  IF detection.hand /\ detection.gesture # ""
           THEN IF detection.gesture = loop.currentStableGesture
                   /\ detection.confidence > StableConfidence
                THEN IF Triggers(detection, dt)
                     THEN /\ loop' = [seen EXCEPT !.stableGestureCount = 0,
                                                  !.sinceLast = 0,
                                                  !.invoked = TRUE,
                                                  !.sinceInvoked = 0]
                          /\ last' = Call("onGestureDetected", 0, detection.gesture, NoCard,
                                          [frames |-> HighFramesAfter(detection),
                                           again |-> loop.invoked,
                                           apart |-> seen.sinceInvoked])
                     ELSE /\ loop' = [seen EXCEPT !.stableGestureCount =
                                                      UpTo(StableFrames, @ + 1)]
                          /\ last' = Call("detectHands", 0, <<>>, NoCard, <<>>)
                ELSE /\ loop' = [seen EXCEPT !.currentStableGesture = detection.gesture,
                                             !.stableGestureCount = 1]
                     /\ last' = Call("detectHands", 0, <<>>, NoCard, <<>>)
           ELSE /\ loop' = [seen EXCEPT !.currentStableGesture = "",
                                        !.stableGestureCount = 0]
                /\ last' = Call("detectHands", 0, <<>>, NoCard, <<>>)
    /\ UNCHANGED <<created, currentBuckets, practiceHistory, currentDay, calls, tasks, view>>

\* the owner of the component has rendered and passes a new function as
\* onGestureDetected (PracticeView makes handleGestureDetected anew whenever
\* it renders: handleAnswer, on which its useCallback depends, is a new
\* function every time): the effect is cleaned up and runs again
EffectRunsAgain ==
    /\ loop.running
    /\ loop' = [Started EXCEPT !.frame = loop.frame,
                               !.before = loop.before,
                               !.highFrames = loop.highFrames,
                               !.invoked = loop.invoked,
                               !.sinceInvoked = loop.sinceInvoked]
    /\ last' = Call("useEffect", 0, <<>>, NoCard, <<>>)
    /\ UNCHANGED <<created, currentBuckets, practiceHistory, currentDay, calls, tasks, view>>

GestureInit ==
    /\ created = <<>>
    /\ currentBuckets = << [bucket |-> 0, flashcards |-> InitialSet] >>
    /\ practiceHistory = <<>>
    /\ currentDay = 0
    /\ calls = 0
    /\ tasks = <<>>
    /\ view = NotMounted
    /\ loop = Started
    /\ last = NoCall

GestureNext ==
    \/ \E detection \in Detections, dt \in FrameTimes : detectHands(detection, dt)
    \/ EffectRunsAgain

GestureSpec == GestureInit /\ [][GestureNext]_vars

----------------------------------------------------------------------------
(* Vocabulary of the properties *)

\* the bucket indices whose set holds the card object
BucketsOf(m, card) == {m[i].bucket : i \in {j \in 1..Len(m) : SetHas(m[j].flashcards, card)}}

\* the card objects held anywhere in the map
StoredCards(m) == UNION {SetElems(m[i].flashcards) : i \in 1..Len(m)}

\* the card objects in the bucket of this index
InBucket(m, k) == UNION {SetElems(m[i].flashcards) : i \in {j \in 1..Len(m) : m[j].bucket = k}}

\* the card objects of an array of sets
ArrayCards(arr) == UNION {SetElems(arr[i]) : i \in 1..Len(arr)}

\* a sequence that lists no element twice
IsSet(s) == \A i, j \in 1..Len(s) : i # j => s[i] # s[j]

\* the stored cards with this front and back
Matching(m, front, back) ==
    {c \in StoredCards(m) : Deref(c).front = front /\ Deref(c).back = back}

\* the sum of the sizes of the buckets of the map whose index is at least k
SizeFrom(m, k) ==
    Cardinality({x \in (1..Len(m)) \X StoredCards(m) :
                    m[x[1]].bucket >= k /\ SetHas(m[x[1]].flashcards, x[2])})

StateIsPre ==
    /\ currentBuckets = last.pre.buckets
    /\ practiceHistory = last.pre.history
    /\ currentDay = last.pre.day

----------------------------------------------------------------------------
(* The algorithm, called directly (AlgSpec) *)

\* C1: practice(buckets, d) returns exactly the cards of the sets buckets[i]
\* with d mod (i+1) = 0, each once: no due card omitted, no other included.
\* (Position k of the array is the code's index k - 1, so the divisor is k.)
C1_PracticeReturnsExactlyTheDueCards ==
    last.op = "practice" =>
        /\ IsSet(last.result)
        /\ SetElems(last.result) =
               {c \in ArrayCards(last.req.buckets) :
                   \E k \in 1..Len(last.req.buckets) :
                       /\ SetHas(last.req.buckets[k], c)
                       /\ last.req.day % k = 0}

\* practice was asked day 2 with card 1 in bucket 1 (due) and card 2 in
\* bucket 2 (not due)
C1_Witness ==
    /\ last.op = "practice"
    /\ last.req.day = 2
    /\ Len(last.req.buckets) = 3
    /\ SetHas(last.req.buckets[2], 1)
    /\ SetHas(last.req.buckets[3], 2)
    /\ SetElems(last.result) = {1}

\* C2: from a store in which every card is in at most one bucket, after any
\* sequence of update calls every card object is in at most one bucket set
\* (and once in it).
C2_EveryCardInAtMostOneBucket ==
    /\ \A c \in AlgCards : Cardinality(BucketsOf(currentBuckets, c)) <= 1
    /\ \A i \in 1..Len(currentBuckets) : IsSet(currentBuckets[i].flashcards)

\* two updates were made and the second moved a card that was in a bucket
\* above 0 to another bucket, both cards being stored
C2_Witness ==
    /\ calls = 2
    /\ last.op = "update"
    /\ \E b \in BucketsOf(last.pre.buckets, last.card) :
           b > 0 /\ BucketsOf(currentBuckets, last.card) # {b}
    /\ StoredCards(currentBuckets) = AlgCards

\* C4: update with a card that is in no bucket changes nothing; and every
\* update is the complete move (out of the old bucket, into the new one) or
\* no change at all.
C4_UpdateOfAbsentCardChangesNothing ==
    last.op = "update" =>
        /\ BucketsOf(last.pre.buckets, last.card) = {} => currentBuckets = last.pre.buckets
        /\ \/ currentBuckets = last.pre.buckets
           \/ /\ BucketsOf(last.pre.buckets, last.card) # {}
              /\ Cardinality(BucketsOf(currentBuckets, last.card)) = 1

\* C5: update(buckets, card, Wrong) of a card located in a bucket b leaves it
\* in bucket 0 and in no other bucket, also when b = 0.
C5_WrongPutsTheCardInBucketZero ==
    (/\ last.op = "update"
     /\ last.req.difficulty = Wrong
     /\ BucketsOf(last.pre.buckets, last.card) # {})
        => BucketsOf(currentBuckets, last.card) = {0}

\* a card that was in bucket 2 was answered Wrong
C5_Witness ==
    /\ last.op = "update"
    /\ last.req.difficulty = Wrong
    /\ BucketsOf(last.pre.buckets, last.card) = {2}
    /\ BucketsOf(currentBuckets, last.card) = {0}

\* C6: for a card located in bucket b, Hard moves it to b + 1 and Easy to
\* b + 2: the target bucket exists afterwards, the card is in it and no more
\* in b, and every other card is in the bucket it was in.
C6_HardAndEasyPromote ==
    (last.op = "update" /\ BucketsOf(last.pre.buckets, last.card) # {}) =>
        \A b \in BucketsOf(last.pre.buckets, last.card) :
            /\ last.req.difficulty = Hard =>
                   /\ MapHas(currentBuckets, b + 1)
                   /\ BucketsOf(currentBuckets, last.card) = {b + 1}
            /\ last.req.difficulty = Easy =>
                   /\ MapHas(currentBuckets, b + 2)
                   /\ BucketsOf(currentBuckets, last.card) = {b + 2}
            /\ \A c \in AlgCards \ {last.card} :
                   BucketsOf(currentBuckets, c) = BucketsOf(last.pre.buckets, c)

\* a card in bucket 2 was answered Easy on a map that had no bucket 4, the
\* other card being stored too
C6_Witness ==
    /\ last.op = "update"
    /\ last.req.difficulty = Easy
    /\ BucketsOf(last.pre.buckets, last.card) = {2}
    /\ ~MapHas(last.pre.buckets, 4)
    /\ BucketsOf(currentBuckets, last.card) = {4}
    /\ StoredCards(currentBuckets) = AlgCards

----------------------------------------------------------------------------
(* The server (Spec) *)

\* C3: in every state the server reaches, no two stored cards have the same
\* front and back (so a front/back pair is in at most one bucket, once).
C3_NoTwoStoredCardsShareFrontAndBack ==
    \A c1, c2 \in StoredCards(currentBuckets) :
        (Deref(c1).front = Deref(c2).front /\ Deref(c1).back = Deref(c2).back) => c1 = c2

\* C7: every card in bucket 0 is in the due set of every day; the cards
\* GET /api/practice returns include every card of bucket 0, whatever the
\* current day (a card just created or just answered Wrong among them).
C7_BucketZeroIsAlwaysDue ==
    /\ \A d \in 0..MaxDay :
           InBucket(currentBuckets, 0) \subseteq
               SetElems(practice(toBucketSets(currentBuckets), d))
    /\ last.op = "GET /api/practice" =>
           InBucket(last.pre.buckets, 0) \subseteq SetElems(last.result.cards)

\* on day 1 GET /api/practice returned the card created by POST
\* /api/flashcards (in bucket 0) and not the France card (in bucket 1)
C7_Witness ==
    /\ last.op = "GET /api/practice"
    /\ last.result.day = 1
    /\ BucketsOf(currentBuckets, 13) = {0}
    /\ SetHas(last.result.cards, 13)
    /\ BucketsOf(currentBuckets, 1) = {1}
    /\ ~SetHas(last.result.cards, 1)

\* C8: GET /api/practice, /api/hint and /api/progress (toBucketSets,
\* practice, computeProgress, findCard, getHint) leave the bucket store, the
\* history and the day as they found them, and the same call on the state
\* they leave gives the result they gave.
C8_ReadsChangeNothing ==
    /\ last.op \in {"GET /api/practice", "GET /api/hint", "GET /api/progress"} => StateIsPre
    /\ last.op = "GET /api/practice" =>
           last.result = [cards |-> practice(toBucketSets(currentBuckets), currentDay),
                          day |-> currentDay]
    /\ last.op = "GET /api/progress" => last.result = computeProgress(currentBuckets)
    /\ (last.op = "GET /api/hint" /\ last.status = 200) =>
           /\ last.card = findCard(last.req.cardFront, last.req.cardBack)
           /\ last.result = getHint(last.card)

\* GET /api/practice answered on day 1 after an update and a card creation
C8_Witness ==
    /\ last.op = "GET /api/practice"
    /\ currentDay = 1
    /\ Len(practiceHistory) = 1
    /\ Len(created) = 1
    /\ Len(last.result.cards) > 0

\* C9: a POST /api/update answered 200 appends exactly one record, for the
\* card it found, whose previousBucket is the bucket that held the card
\* before and whose newBucket is the bucket that holds it in the store the
\* request leaves; one answered 404 appends none.
C9_OneRecordWithTheBucketsBeforeAndAfter ==
    last.op = "POST /api/update" =>
        /\ last.status \in {200, 404}
        /\ last.status = 404 => practiceHistory = last.pre.history
        /\ last.status = 200 =>
               /\ Len(practiceHistory) = Len(last.pre.history) + 1
               /\ SubSeq(practiceHistory, 1, Len(last.pre.history)) = last.pre.history
               /\ LET record == practiceHistory[Len(practiceHistory)]
                  IN  /\ record.cardFront = Deref(last.card).front
                      /\ record.cardBack = Deref(last.card).back
                      /\ record.difficulty = last.req.difficulty
                      /\ BucketsOf(last.pre.buckets, last.card) = {record.previousBucket}
                      /\ BucketsOf(currentBuckets, last.card) = {record.newBucket}

\* the second update of a card moved it from bucket 1 to bucket 3
C9_Witness ==
    /\ last.op = "POST /api/update"
    /\ last.status = 200
    /\ Len(practiceHistory) = 2
    /\ practiceHistory[2].previousBucket = 1
    /\ practiceHistory[2].newBucket = 3
    /\ BucketsOf(currentBuckets, last.card) = {3}

\* C10: a POST /api/update, or a GET /api/hint carrying both parameters,
\* whose front and back are those of no stored card is answered 404 and
\* leaves the bucket store, the history and the day as they were.
C10_UnknownCardIs404AndChangesNothing ==
    (/\ \/ last.op = "POST /api/update"
        \/ /\ last.op = "GET /api/hint"
           /\ last.req.cardFront # Undefined
           /\ last.req.cardBack # Undefined
     /\ Matching(last.pre.buckets, last.req.cardFront, last.req.cardBack) = {})
        => (last.status = 404 /\ StateIsPre)

\* an update naming the France card without its back was refused after the
\* card had been moved out of bucket 0
C10_Witness ==
    /\ last.op = "POST /api/update"
    /\ last.status = 404
    /\ last.req.cardFront = FranceFront
    /\ Len(practiceHistory) = 1
    /\ BucketsOf(currentBuckets, 1) = {2}

----------------------------------------------------------------------------
(* The array of buckets (AlgSpec) *)

\* the array toBucketSets(m) the last call has made, if it has made one
ArrayMade ==
    IF last.op = "practice" THEN last.req.buckets ELSE last.result

\* C18: toBucketSets(m) is an array of length (largest key of m) + 1 whose
\* element i holds exactly the cards of m[i], none where m has no key i;
\* practice of that array on day d returns exactly the cards of the buckets
\* m[i] with d mod (i + 1) = 0; and adding a card to a set of the array
\* leaves m as it was.
C18_TheArrayHoldsTheBucketsOfTheMap ==
    /\ last.op \in {"practice", "toBucketSets"} /\ last.pre.buckets # <<>> =>
           LET m == last.pre.buckets
               keys == {m[i].bucket : i \in 1..Len(m)}
           IN  /\ Len(ArrayMade) - 1 \in keys
               /\ \A k \in keys : k <= Len(ArrayMade) - 1
               /\ \A i \in 0..(Len(ArrayMade) - 1) :
                      /\ IsSet(ArrayMade[i + 1])
                      /\ SetElems(ArrayMade[i + 1]) = InBucket(m, i)
    /\ last.op = "practice" =>
           SetElems(last.result) =
               {c \in StoredCards(last.pre.buckets) :
                   \E i \in BucketsOf(last.pre.buckets, c) : last.req.day % (i + 1) = 0}
    /\ last.op = "toBucketSets" => currentBuckets = last.pre.buckets

\* the map has the keys 0 and 2 only; a card is added to the set of the
\* array for bucket 2, which holds the other card
C18_Witness ==
    /\ last.op = "toBucketSets"
    /\ Len(last.result) = 3
    /\ ~MapHas(last.pre.buckets, 1)
    /\ last.result[2] = <<>>
    /\ last.req.index = 2
    /\ last.result[3] # <<>>
    /\ ~SetHas(last.result[3], last.req.card)
    /\ currentBuckets = last.pre.buckets

\* the map without its entries whose set is empty
WithoutEmptyBuckets(m) == SelectSeq(m, LAMBDA e : e.flashcards # <<>>)

----------------------------------------------------------------------------
(* Progress (AlgSpec) *)

\* C11: computeProgress returns a statistics record: its totalCards is the
\* sum of the sizes of all buckets, its cardsLearned the sum of the sizes of
\* the buckets with index at least 3, and its cardsByBucket maps every
\* non-empty bucket to the number of its cards.
C11_ComputeProgressReturnsTheStatistics ==
    last.op = "computeProgress" =>
        LET m == last.pre.buckets
            nonEmpty == {i \in 1..Len(m) : Len(m[i].flashcards) > 0}
        IN  /\ {"totalCards", "cardsLearned", "cardsByBucket"} \subseteq DOMAIN last.result
            /\ last.result.totalCards = SizeFrom(m, 0)
            /\ last.result.cardsLearned = SizeFrom(m, 3)
            /\ last.result.cardsByBucket =
                   [b \in {m[i].bucket : i \in nonEmpty} |-> Cardinality(InBucket(m, b))]

\* C12: the completion percentage is cardsLearned * 100 / totalCards when
\* the map holds a card and 0 when it holds none; it lies between 0 and 100.
C12_CompletionIsLearnedOverTotal ==
    last.op = "computeProgress" =>
        LET totalCards == SizeFrom(last.pre.buckets, 0)
            cardsLearned == SizeFrom(last.pre.buckets, 3)
            completion == last.result
        IN  /\ completion.den > 0
            /\ totalCards > 0 => completion.num * totalCards = cardsLearned * 100 * completion.den
            /\ totalCards = 0 => completion.num = 0
            /\ 0 <= completion.num
            /\ completion.num <= 100 * completion.den

\* half of the cards are learned: one in bucket 3, one below
C12_Witness ==
    /\ last.op = "computeProgress"
    /\ BucketsOf(last.pre.buckets, 1) = {3}
    /\ \E b \in 0..2 : BucketsOf(last.pre.buckets, 2) = {b}
    /\ last.result.num * 2 = 100 * last.result.den

----------------------------------------------------------------------------
(* The day counter and the history (StateSpec) *)

\* an operation that advances the day
IsAdvance(op) == op \in {"incrementDay", "POST /api/day/next"}

\* C13 as stated: the day counter starts at 0, is never negative, is raised by
\* exactly 1 by the advance-day operation and is left as it is, never
\* decreased, by every other operation.
C13_DayChangesOnlyByAdvancing ==
    /\ currentDay >= 0
    /\ last.op = "none" => currentDay = 0
    /\ IsAdvance(last.op) => currentDay = last.pre.day + 1
    /\ ~IsAdvance(last.op) => currentDay = last.pre.day

\* C13: the day counter starts at 0, is never negative, is raised by exactly
\* 1 by the advance-day operation, is put back to 0 by resetState and is left
\* as it is by every other operation.
C13_DayAdvancesByOneOrIsReset ==
    /\ currentDay >= 0
    /\ last.op = "none" => currentDay = 0
    /\ IsAdvance(last.op) => currentDay = last.pre.day + 1
    /\ last.op = "resetState" => currentDay = 0
    /\ ~IsAdvance(last.op) /\ last.op # "resetState" => currentDay = last.pre.day

\* resetState after two advances, one by the request and one by the call
C13_Witness ==
    /\ last.op = "resetState"
    /\ last.pre.day = 2
    /\ currentDay = 0

\* the log before the operation is the beginning of the log after it, which
\* is longer by one record at most
GrewAtTheEnd ==
    /\ Len(practiceHistory) >= Len(last.pre.history)
    /\ Len(practiceHistory) <= Len(last.pre.history) + 1
    /\ SubSeq(practiceHistory, 1, Len(last.pre.history)) = last.pre.history

\* C15 as stated: the history is append-only: every operation leaves the
\* records of the log unchanged and in place and adds at most one at the
\* end; after addHistoryRecord(r) the log is one longer and ends with r.
C15_HistoryIsAppendOnly ==
    /\ GrewAtTheEnd
    /\ last.op = "addHistoryRecord" => practiceHistory = Append(last.pre.history, last.req)

\* C15: every operation other than resetState leaves the records of the log
\* unchanged and in place and adds at most one at the end; after
\* addHistoryRecord(r) the log is one longer and ends with r; resetState
\* empties the log.
C15_HistoryGrowsAtTheEndOrIsReset ==
    /\ last.op # "resetState" => GrewAtTheEnd
    /\ last.op = "addHistoryRecord" => practiceHistory = Append(last.pre.history, last.req)
    /\ last.op = "resetState" => practiceHistory = <<>>

\* addHistoryRecord on a log that holds the record of an update
C15_Witness ==
    /\ last.op = "addHistoryRecord"
    /\ Len(last.pre.history) >= 1
    /\ last.pre.history[1] # last.req
    /\ Len(practiceHistory) = Len(last.pre.history) + 1

----------------------------------------------------------------------------
(* The requests that write (Spec) *)

\* C14: advancing the day raises the day by one and leaves the bucket store,
\* so the bucket of every card, and the history as they were.
C14_AdvancingTheDayLeavesCardsAndHistory ==
    last.op = "POST /api/day/next" =>
        /\ currentBuckets = last.pre.buckets
        /\ practiceHistory = last.pre.history
        /\ currentDay = last.pre.day + 1
        /\ last.result = currentDay

\* the day advances after an update has moved a card and left a record
C14_Witness ==
    /\ last.op = "POST /api/day/next"
    /\ Len(practiceHistory) >= 1
    /\ Len(currentBuckets) >= 2

C17_NoCardIsEverRemoved ==
    /\ StoredCards(last.pre.buckets) \subseteq StoredCards(currentBuckets)
    /\ StoredCards(currentBuckets) = 1..(Len(initialCards) + Len(created))
    /\ last.op = "POST /api/update" =>
           SizeFrom(currentBuckets, 0) = SizeFrom(last.pre.buckets, 0)
    /\ last.op = "POST /api/flashcards" /\ last.status = 201 =>
           SizeFrom(currentBuckets, 0) = SizeFrom(last.pre.buckets, 0) + 1

\* an update moves a card back into bucket 0, where other cards are, after
\* a card has been created
C17_Witness ==
    /\ last.op = "POST /api/update"
    /\ last.status = 200
    /\ Len(created) >= 1
    /\ BucketsOf(last.pre.buckets, last.card) = {1}
    /\ BucketsOf(currentBuckets, last.card) = {0}
    /\ SizeFrom(currentBuckets, 0) = Len(initialCards) + 1

\* C20: no bucket is terminal: whatever its bucket b, a stored card is among
\* the cards due again on one of the next b + 1 days if it is not updated
\* meanwhile; and an update of a stored card is accepted whatever its bucket:
\* Hard moves it one bucket up and Easy two, from any bucket.
C20_EveryCardComesDueAgain ==
    /\ \A c \in StoredCards(currentBuckets) :
           \A b \in BucketsOf(currentBuckets, c) :
               \E n \in 1..(b + 1) :
                   SetHas(practice(toBucketSets(currentBuckets), currentDay + n), c)
    /\ (/\ last.op = "POST /api/update"
        /\ last.req.difficulty \in AnswerDifficulty
        /\ Matching(last.pre.buckets, last.req.cardFront, last.req.cardBack) # {}) =>
           /\ last.status = 200
           /\ \A b \in BucketsOf(last.pre.buckets, last.card) :
                  BucketsOf(currentBuckets, last.card) =
                      {IF last.req.difficulty = Wrong THEN 0 ELSE b + last.req.difficulty}

\* on day 1 a card in bucket 4 is not among the cards due
C20_Witness ==
    /\ last.op = "GET /api/practice"
    /\ currentDay = 1
    /\ \E c \in StoredCards(currentBuckets) :
           /\ BucketsOf(currentBuckets, c) = {4}
           /\ ~SetHas(last.result.cards, c)

----------------------------------------------------------------------------
(* Lookup, the cards and the records (Spec) *)

\* C21: lookup agrees with the store: for every stored card c, findCard of
\* its front and back returns a stored card with that front and back, and
\* findCardBucket(c) is the index of the one bucket whose set holds c;
\* findCard returns undefined exactly when no stored card has that front and
\* back; the lookup of a request is answered 404 exactly in that case.
C21_LookupAgreesWithTheStore ==
    /\ \A c \in StoredCards(currentBuckets) :
           LET found == findCard(Deref(c).front, Deref(c).back)
           IN  /\ found \in Matching(currentBuckets, Deref(c).front, Deref(c).back)
               /\ BucketsOf(currentBuckets, c) = {findCardBucket(c)}
    /\ \A body \in UpdateBodies :
           findCard(body.cardFront, body.cardBack) = NoCard
               <=> Matching(currentBuckets, body.cardFront, body.cardBack) = {}
    /\ last.op = "POST /api/update" \/ (last.op = "GET /api/hint" /\ last.status # 400) =>
           IF Matching(last.pre.buckets, last.req.cardFront, last.req.cardBack) = {}
           THEN last.status = 404
           ELSE /\ last.status = 200
                /\ last.card \in Matching(last.pre.buckets, last.req.cardFront, last.req.cardBack)

\* a hint is looked up while two stored cards with its front and back are in
\* different buckets
C21_Witness ==
    /\ last.op = "GET /api/hint"
    /\ last.status = 200
    /\ \E c, d \in Matching(currentBuckets, last.req.cardFront, last.req.cardBack) :
           /\ c # d
           /\ BucketsOf(currentBuckets, c) # BucketsOf(currentBuckets, d)

\* C23: every record of the history names a front and back that a card of
\* the store has, and its difficulty is one of Wrong, Hard, Easy, whatever
\* the bodies of the update requests were.
C23_EveryRecordIsValid ==
    \A i \in 1..Len(practiceHistory) :
        /\ Matching(currentBuckets, practiceHistory[i].cardFront,
                    practiceHistory[i].cardBack) # {}
        /\ practiceHistory[i].difficulty \in AnswerDifficulty

\* C27: every stored card has a non-empty front and a non-empty back; a
\* creation request whose front or back is missing or empty is answered 400
\* and leaves the bucket store, the history and the day as they were.
C27_EveryCardHasFrontAndBack ==
    /\ \A c \in StoredCards(currentBuckets) :
           /\ Deref(c).front \notin {"", Undefined}
           /\ Deref(c).back \notin {"", Undefined}
    /\ (/\ last.op = "POST /api/flashcards"
        /\ \/ last.req.front \in {"", Undefined}
           \/ last.req.back \in {"", Undefined}) =>
           /\ last.status = 400
           /\ StateIsPre

\* a creation without a front is refused after another has been served
C27_Witness ==
    /\ last.op = "POST /api/flashcards"
    /\ last.req.front = ""
    /\ last.status = 400
    /\ Len(created) >= 1

\* the positions of the log whose record names this front and back
RecordsOf(front, back) ==
    {i \in 1..Len(practiceHistory) :
        practiceHistory[i].cardFront = front /\ practiceHistory[i].cardBack = back}

\* C30: the history traces the movement of each card: of two consecutive
\* records of the same card the later one's previousBucket is the earlier
\* one's newBucket, the first record of a card has previousBucket 0, and the
\* newBucket of its last record is the bucket the card is in now.
C30_TheHistoryTracesEachCard ==
    \A i \in 1..Len(practiceHistory) :
        LET mine == RecordsOf(practiceHistory[i].cardFront, practiceHistory[i].cardBack)
            earlier == {j \in mine : j < i}
            later == {j \in mine : j > i}
        IN  /\ earlier = {} => practiceHistory[i].previousBucket = 0
            /\ \A j \in earlier :
                   (\A k \in earlier : k <= j) =>
                       practiceHistory[i].previousBucket = practiceHistory[j].newBucket
            /\ later = {} =>
                   \A c \in Matching(currentBuckets, practiceHistory[i].cardFront,
                                     practiceHistory[i].cardBack) :
                       BucketsOf(currentBuckets, c) = {practiceHistory[i].newBucket}

----------------------------------------------------------------------------
(* resetState (StateSpec) *)

\* C22: after any requests and calls, resetState leaves the day at 0, the
\* history empty and the bucket map with bucket 0 alone, holding exactly the
\* initial cards.
C22_ResetStateRestoresTheInitialState ==
    last.op = "resetState" =>
        /\ currentDay = 0
        /\ practiceHistory = <<>>
        /\ Len(currentBuckets) = 1
        /\ currentBuckets[1].bucket = 0
        /\ currentBuckets[1].flashcards = InitialSet
        /\ StoredCards(currentBuckets) = 1..Len(initialCards)

\* the state is reset after a creation, an update and a day advance
C22_Witness ==
    /\ last.op = "resetState"
    /\ last.pre.day = 1
    /\ Len(last.pre.history) = 1
    /\ Len(last.pre.buckets) >= 2
    /\ Cardinality(StoredCards(last.pre.buckets)) = Len(initialCards) + 1
    /\ currentBuckets = << [bucket |-> 0, flashcards |-> InitialSet] >>

----------------------------------------------------------------------------
(* Updates under way together (ConcSpec) *)

\* what the update handler leaves of these buckets and this history
AfterUpdate(state, body) ==
    LET card == FindCardFrom(state.buckets, body.cardFront, body.cardBack, 1)
    IN  IF card = NoCard THEN state
        ELSE LET updatedBuckets == update(state.buckets, card, body.difficulty)
             IN  [buckets |-> updatedBuckets,
                  history |-> Append(state.history,
                      [cardFront |-> Deref(card).front,
                       cardBack |-> Deref(card).back,
                       difficulty |-> body.difficulty,
                       previousBucket |-> FindCardBucketIn(state.buckets, card),
                       newBucket |-> FindCardBucketIn(updatedBuckets, card)])]

RECURSIVE OneAfterTheOther(_, _, _)
\* what the requests tasks[order[k]], tasks[order[k + 1]], ... leave when
\* each is served after the one before it has been answered
OneAfterTheOther(state, order, k) ==
    IF k > Len(order) THEN state
    ELSE OneAfterTheOther(AfterUpdate(state, tasks[order[k]].req), order, k + 1)

\* the orders in which the requests served so far can be put
OrdersOfServed ==
    LET served == {i \in 1..Len(tasks) : tasks[i].done}
    IN  {order \in [1..Cardinality(served) -> served] :
            \A i, j \in 1..Cardinality(served) : i # j => order[i] # order[j]}

\* C26: update requests under way together leave the bucket store and the
\* history that serving them one after the other in some order leaves, and
\* every card is in exactly one bucket.
C26_UpdatesAreServedOneAfterTheOther ==
    /\ \E order \in OrdersOfServed :
           OneAfterTheOther([buckets |-> << [bucket |-> 0, flashcards |-> InitialSet] >>,
                             history |-> <<>>], order, 1)
               = [buckets |-> currentBuckets, history |-> practiceHistory]
    /\ \A c \in 1..Len(initialCards) : Cardinality(BucketsOf(currentBuckets, c)) = 1

\* three updates of one card were under way together and the one sent last
\* was served first
C26_Witness ==
    /\ Len(tasks) = 3
    /\ \A i \in 1..3 : tasks[i].done /\ tasks[i].req.cardFront = FranceFront
    /\ tasks[3].req.difficulty = Wrong
    /\ tasks[1].req.difficulty = Easy
    /\ Len(practiceHistory) = 3
    /\ practiceHistory[1].difficulty = Wrong
    /\ practiceHistory[3].previousBucket > 0

----------------------------------------------------------------------------
(* The practice session of the frontend (ViewSpec) *)

\* the answers submitted, by their place in tasks
Submissions == {i \in 1..Len(tasks) : tasks[i].kind = "submitAnswer"}

\* C24: each card of a loaded due list has at most one answer submitted to
\* the backend: no two calls of submitAnswer are made for the same card of
\* the same load, whatever clicks and gestures arrive and whenever
C24_AtMostOneAnswerForEachCard ==
    view.mounted =>
        \A i, j \in Submissions :
            (tasks[i].load = tasks[j].load /\ tasks[i].index = tasks[j].index) => i = j

\* C25: when cards are loaded and the session is not finished,
\* currentCardIndex is an index of practiceCards
C25_IndexWithinBounds ==
    (view.mounted /\ Len(view.practiceCards) > 0 /\ ~view.sessionFinished) =>
        (0 <= view.currentCardIndex /\ view.currentCardIndex < Len(view.practiceCards))

\* the place in tasks of the request whose answer is the list on display
LastLoad ==
    CHOOSE i \in 1..Len(tasks) :
        tasks[i].kind = "fetchPracticeCards" /\ tasks[i].done /\ tasks[i].load = view.load

\* the answers to the cards of the list on display that the backend has taken
AnsweredOfThisLoad == {i \in Submissions : tasks[i].done /\ tasks[i].load = view.load}

\* the timers that will show the next card
NextCardTimers == {i \in 1..Len(tasks) : tasks[i].kind = "next card"}

\* the list on display is loaded, no request has failed, nothing of another
\* load is still under way, and no card was answered twice
EachCardAnsweredOnce ==
    /\ view.mounted
    /\ view.error = Null
    /\ ~view.isLoading
    /\ view.load # 0
    /\ \A i \in 1..Len(tasks) :
            ~tasks[i].done => /\ tasks[i].kind # "fetchPracticeCards"
                              /\ tasks[i].kind # "advanceDay" => tasks[i].load = view.load
    /\ \A i, j \in Submissions :
            (tasks[i].load = tasks[j].load /\ tasks[i].index = tasks[j].index) => i = j

\* C28: a session whose cards are each answered once, with success, ends:
\* a load of no cards finishes it at once; after k of n cards are answered
\* the card on display is card k (card k - 1 until the timer has run), and
\* after the n-th the session is finished; the day on display is the day
\* the last load returned
C28_TheSessionReachesItsEnd ==
    EachCardAnsweredOnce =>
        LET n == Len(view.practiceCards)
            k == Cardinality(AnsweredOfThisLoad)
        IN  /\ view.day = tasks[LastLoad].day
            /\ view.practiceCards = tasks[LastLoad].cards
            /\ k <= n
            /\ view.sessionFinished <=> k = n
            /\ k < n => /\ view.currentCardIndex + Cardinality(NextCardTimers) = k
                        /\ Cardinality(NextCardTimers) <= 1
                        /\ \A i \in AnsweredOfThisLoad : tasks[i].index < k

\* both cards of a list of two have been answered once, the second after
\* the timer of the first has shown it
C28_Witness ==
    /\ EachCardAnsweredOnce
    /\ Len(view.practiceCards) = 2
    /\ Cardinality(AnsweredOfThisLoad) = 2
    /\ view.currentCardIndex = 1
    /\ view.sessionFinished
    /\ view.day = currentDay
    /\ last.op = "submitAnswer"
    /\ last.status = 200

----------------------------------------------------------------------------
(* The detection loop (GestureSpec) *)

\* the pass just made has called onGestureDetected
Invoked == last.op = "onGestureDetected"

\* the callback is invoked only after more than 15 frames in a row with the
\* same top gesture and confidence above 0.8
InvokedOnlyWhenStable == Invoked => last.result.frames > StableFrames

\* the callback is invoked only after 15 such frames in a row
InvokedAfterFifteenHighFrames == Invoked => last.result.frames >= StableFrames

\* a frame with no hand, no gesture, another gesture than the frame before
\* it, or low confidence starts the count again
CountRestarts ==
    (/\ loop.running
     /\ last.op = "detectHands"
     /\ \/ ~loop.frame.hand
        \/ loop.frame.gesture = ""
        \/ loop.frame.gesture # loop.before.gesture
        \/ loop.frame.confidence <= StableConfidence)
        => loop.stableGestureCount <= 1

\* C29: any two invocations of onGestureDetected by GestureRecognizer are
\* more than 2000 ms apart (the cooldown of the claim, whose other two
\* parts are InvokedOnlyWhenStable and CountRestarts)
C29_InvocationsAreApart ==
    (Invoked /\ last.result.again) => last.result.apart > GestureDelay

====
